---- MODULE Spec2Model ----
(***************************************************************************)
(* Startup and recovery orchestration of one etcd node (main.go): the      *)
(* bootstrap decision, the fresh and the recovery path, the composition of *)
(* the network endpoints, and the proxy mode.  One process run is a        *)
(* sequence of steps, one per call main.go makes to a collaborator; the    *)
(* data directory outlives the run.                                        *)
(***************************************************************************)
EXTENDS Integers, Sequences, FiniteSets, TLC

\* ---------------------------------------------------------------- bounds
MaxID == 2          \* member IDs are 0..MaxID
MaxIndex == 2       \* highest log index a data directory holds
MaxAddrs == 2       \* client bind addresses
MaxRuns == 2        \* process runs on one data directory

\* ------------------------------------------------------------- constants
None == 0                   \* raft.None
DefaultSnapCount == 1       \* stands for etcdserver.DefaultSnapCount, any value > 0
ProxyValueOff == "off"
ProxyValueReadonly == "readonly"
ProxyValues == {"off", "on", "readonly"}

Names == {"n1", "n2"}
IDs == 0..MaxID
Members == [Name : Names, ID : IDs]

\* A Cluster Descriptor: members with distinct names and distinct IDs.
Clusters ==
  {c \in SUBSET Members :
     \A a, b \in c : (a.Name = b.Name \/ a.ID = b.ID) => a = b}

\* -------------------------------------------------- collaborator contracts
\* Cluster.FindName: the member with that name, or nil (the empty sequence).
FindName(c, nm) ==
  IF \E m \in c : m.Name = nm
    THEN <<CHOOSE m \in c : m.Name = nm>>
    ELSE <<>>

\* Cluster.IDs: the member IDs of a descriptor.
ClusterIDs(c) == {m.ID : m \in c}

\* Cluster.PeerURLs: one peer URL per member, named here by the member's name.
PeerURLs(c) == {m.Name : m \in c}

Entry(k) == [Index |-> k]

\* The entries 1..k of a log, in order.
EntriesUpTo(k) == [j \in 1..k |-> Entry(j)]

\* wal.Exist: the log directory is there.
WalExist(d) == "wal" \in d

\* WAL.ReadAll on a log opened at offset: the entries at or after the offset.
ReadAllEntries(es, offset) == SelectSeq(es, LAMBDA e : e.Index >= offset)

\* ------------------------------------------------------------------ state
VARIABLES
  cfg,          \* the flags: Name, Cluster, SnapCount, Durl, Purls, Proxy, Addrs
  dirs,         \* directories of the data directory that exist
  walDisk,      \* the durable log: [ID, State, Ents]
  snapDisk,     \* the latest snapshot on disk: <<>> or <<[Index, Data]>>
  run,          \* number of the current process run
  walAtStart,   \* whether the log directory existed when the run began
  pc,           \* position of the main sequence
  cluster,      \* the package-level cluster variable
  self,         \* <<>> (nil) or <<member>>
  st,           \* the store: <<>> (empty) or <<data>>
  snapshot,     \* the loaded snapshot: <<>> (nil) or <<[Index, Data]>>
  index,        \* the recovery start offset
  w,            \* the log handle: <<>> or <<[Offset]>>
  wid,          \* node identifier read back from the log
  hs,           \* hard state read back from the log
  ents,         \* entries read back from the log
  n,            \* the node handle: <<>> or <<[Mode, ID, Peers, Snapshot, State, Ents]>>
  discovered,   \* what Discover returned in this run: <<>> or <<cluster>>
  ph,           \* the proxy handler: <<>> or <<[Urls, Cors, Readonly]>>
  req,          \* the last request a proxy endpoint answered: <<>> or
                \* <<[Task, Mutating, Outcome, Url]>>
  hist,         \* across the runs: the runs that called StartNode, the runs
                \* that created the log, and the member IDs in effect then
  addrIdx,      \* client addresses whose listener was built
  serving,      \* serving tasks that run
  ops,          \* collaborator calls of this run, in order: [Op, Err]
  fatal         \* why the process exited, "" while it runs

vars == <<cfg, dirs, walDisk, snapDisk, run, walAtStart, pc, cluster, self, st,
          snapshot, index, w, wid, hs, ents, n, discovered, ph, addrIdx, serving,
          ops, fatal, req, hist>>

disk == <<dirs, walDisk, snapDisk>>
locals == <<cluster, self, st, snapshot, index, w, wid, hs, ents, n, discovered,
            ph, addrIdx, req>>

\* The clusters the flags configure: member IDs other than None are
\* interchangeable, so a configured member named n1 has the ID None or 1.
LocalClusters ==
  {c \in Clusters : \A m \in c : m.Name = "n1" => m.ID \in {None, 1}}

\* The flags. The node is named n1; the configured cluster may or may not have
\* a member of that name; there is one client address or there are MaxAddrs.
Configs ==
  [Name : {"n1"}, Cluster : LocalClusters, SnapCount : {0, DefaultSnapCount},
   Durl : BOOLEAN, Purls : BOOLEAN, Proxy : ProxyValues, Addrs : {1, MaxAddrs}]

EmptyWal == [ID |-> 0, State |-> 0, Ents |-> <<>>]

\* Data directories a previous run (of this or another version) may have left:
\* none, or a log of entries 1..last with a snapshot at some index up to last.
Disks ==
  {[Dirs |-> {}, Wal |-> EmptyWal, Snap |-> <<>>]}
  \cup
  UNION {
    {[Dirs |-> {"data", "snap", "wal"},
      Wal  |-> [ID |-> id, State |-> last, Ents |-> EntriesUpTo(last)],
      Snap |-> IF k = 0 THEN <<>> ELSE <<[Index |-> k, Data |-> k]>>] :
       id \in {0, 1}, k \in 0..last} : last \in 0..MaxIndex}

\* The index a snapshot pointer stands for: 0 for nil.
SnapIndex(s) == IF s = <<>> THEN 0 ELSE s[1].Index

\* startProxy reads no file: a proxy is tried on no data directory and on the
\* fullest one only.
ProxyDisks ==
  {d \in Disks : d.Dirs = {} \/ (d.Wal.ID = 0 /\ d.Wal.State = MaxIndex
                                   /\ SnapIndex(d.Snap) = MaxIndex)}

\* A collaborator call and the error it returned ("" for nil).
Call(op, err) == [Op |-> op, Err |-> err]

\* The state of a process right after flag parsing.
Fresh(c) ==
  /\ pc = "main"
  /\ cluster = c.Cluster
  /\ self = <<>> /\ st = <<>> /\ snapshot = <<>> /\ index = 0
  /\ w = <<>> /\ wid = 0 /\ hs = 0 /\ ents = <<>> /\ n = <<>> /\ ph = <<>>
  /\ discovered = <<>> /\ req = <<>>
  /\ addrIdx = 0 /\ serving = {} /\ ops = <<>> /\ fatal = ""

Init ==
  /\ cfg \in Configs
  /\ \E d \in Disks :
       /\ cfg.Proxy # ProxyValueOff => d \in ProxyDisks
       /\ dirs = d.Dirs /\ walDisk = d.Wal /\ snapDisk = d.Snap
  /\ run = 1
  /\ walAtStart = WalExist(dirs)
  /\ hist = [Started |-> {}, Created |-> {}, Peers |-> <<>>]
  /\ Fresh(cfg)

\* log.Fatal: the whole process exits, serving tasks included.
Exit(why) ==
  /\ pc' = "exited"
  /\ fatal' = why
  /\ serving' = {}

Goto(l) == pc' = l /\ UNCHANGED <<fatal, serving>>

Do(op, ok) == ops' = Append(ops, Call(op, IF ok THEN "" ELSE "error"))

\* ------------------------------------------------------- main, startEtcd
\* Mutant: the proxy flag is not looked at and startEtcd always runs.
MainIgnoresProxyFlag ==
  /\ pc = "main"
  /\ Goto("resolve")
  /\ UNCHANGED <<cfg, hist, disk, run, walAtStart, locals, ops>>

\* main: the proxy flag selects startEtcd or startProxy.
Main ==
  /\ pc = "main"
  /\ IF cfg.Proxy = ProxyValueOff THEN Goto("resolve") ELSE Goto("proxyTransport")
  /\ UNCHANGED <<cfg, hist, disk, run, walAtStart, locals, ops>>

\* Mutant: the raft.None test is missing.
ResolveSelfAllowsNone ==
  /\ pc = "resolve"
  /\ self' = FindName(cluster, cfg.Name)
  /\ IF self' = <<>> THEN Exit("no member with name") ELSE Goto("snapCount")
  /\ UNCHANGED <<cfg, hist, disk, run, walAtStart, req, discovered, cluster, st, snapshot,
                 index, w, wid, hs, ents, n, ph, addrIdx, ops>>

\* cluster.FindName(*name); nil and raft.None are fatal.
ResolveSelf ==
  /\ pc = "resolve"
  /\ self' = FindName(cluster, cfg.Name)
  /\ IF self' = <<>> THEN Exit("no member with name")
     ELSE IF self'[1].ID = None THEN Exit("cannot use None as member id")
     ELSE Goto("snapCount")
  /\ UNCHANGED <<cfg, hist, disk, run, walAtStart, req, discovered, cluster, st, snapshot, index, w,
                 wid, hs, ents, n, ph, addrIdx, ops>>

\* *snapCount <= 0 is fatal.
CheckSnapCount ==
  /\ pc = "snapCount"
  /\ IF cfg.SnapCount <= 0 THEN Exit("snapshot-count must be greater than 0")
     ELSE Goto("mkdirData")
  /\ UNCHANGED <<cfg, hist, disk, run, walAtStart, locals, ops>>

\* os.MkdirAll(*dir): creates the data directory or fails.
MkdirData ==
  /\ pc = "mkdirData"
  /\ \E ok \in BOOLEAN :
       /\ Do("MkdirAll(data)", ok)
       /\ IF ok THEN dirs' = dirs \cup {"data"} /\ Goto("mkdirSnap")
          ELSE UNCHANGED dirs /\ Exit("cannot create data directory")
  /\ UNCHANGED <<cfg, hist, walDisk, snapDisk, run, walAtStart, locals>>

\* Mutant: the snapshot directory is made where the log directory goes.
MkdirSnapMakesWalDir ==
  /\ pc = "mkdirSnap"
  /\ \E ok \in BOOLEAN :
       /\ Do("MkdirAll(snap)", ok)
       /\ IF ok THEN dirs' = dirs \cup {"snap", "wal"} /\ Goto("walExist")
          ELSE UNCHANGED dirs /\ Exit("cannot create snapshot directory")
  /\ UNCHANGED <<cfg, hist, walDisk, snapDisk, run, walAtStart, locals>>

\* os.MkdirAll(snapdir), snap.New(snapdir).
MkdirSnap ==
  /\ pc = "mkdirSnap"
  /\ \E ok \in BOOLEAN :
       /\ Do("MkdirAll(snap)", ok)
       /\ IF ok THEN dirs' = dirs \cup {"snap"} /\ Goto("walExist")
          ELSE UNCHANGED dirs /\ Exit("cannot create snapshot directory")
  /\ UNCHANGED <<cfg, hist, walDisk, snapDisk, run, walAtStart, locals>>

\* Mutant: the existence test is dropped and every run bootstraps afresh.
BootstrapModeAlwaysFresh ==
  /\ pc = "walExist"
  /\ Do("wal.Exist", TRUE)
  /\ st' = <<>>
  /\ Goto("discoveryCheck")
  /\ UNCHANGED <<cfg, hist, disk, run, walAtStart, req, discovered, cluster, self, snapshot,
                 index, w, wid, hs, ents, n, ph, addrIdx>>

\* st := store.New(); if !wal.Exist(waldir): the bootstrap mode.
BootstrapMode ==
  /\ pc = "walExist"
  /\ Do("wal.Exist", TRUE)
  /\ st' = <<>>
  /\ IF ~WalExist(dirs) THEN Goto("discoveryCheck") ELSE Goto("snapLoad")
  /\ UNCHANGED <<cfg, hist, disk, run, walAtStart, req, discovered, cluster, self, snapshot, index, w,
                 wid, hs, ents, n, ph, addrIdx>>

\* ------------------------------------------------------------ fresh path
\* Mutant: the discovery URL is ignored and the log is created at once.
DiscoveryCheckSkipsDiscovery ==
  /\ pc = "discoveryCheck"
  /\ Goto("walCreate")
  /\ UNCHANGED <<cfg, hist, disk, run, walAtStart, locals, ops>>

\* if *durl != "": discovery needs the advertised peer URLs.
DiscoveryCheck ==
  /\ pc = "discoveryCheck"
  /\ IF cfg.Durl
       THEN IF ~cfg.Purls THEN Exit("discovery requires advertised-peer-urls")
            ELSE Goto("discoveryNew")
       ELSE Goto("walCreate")
  /\ UNCHANGED <<cfg, hist, disk, run, walAtStart, locals, ops>>

\* discovery.New(*durl, self.ID, cfg).
DiscoveryNew ==
  /\ pc = "discoveryNew"
  /\ \E ok \in BOOLEAN :
       /\ Do("discovery.New", ok)
       /\ IF ok THEN Goto("discover") ELSE Exit("cannot init discovery")
  /\ UNCHANGED <<cfg, hist, disk, run, walAtStart, locals>>

\* Mutant: the result of Discover goes to a local and cluster keeps its value.
DiscoverKeepsLocalCluster ==
  /\ pc = "discover"
  /\ \/ /\ Do("Discover", TRUE)
        /\ \E c \in Clusters \ {{}} : discovered' = <<c>>
        /\ Goto("walCreate")
     \/ /\ Do("Discover", FALSE)
        /\ UNCHANGED discovered
        /\ Exit("discovery failed")
  /\ UNCHANGED <<cfg, hist, disk, run, walAtStart, req, cluster, self, st, snapshot, index,
                 w, wid, hs, ents, n, ph, addrIdx>>

\* cluster, err = d.Discover(): the package-level cluster is replaced.
Discover ==
  /\ pc = "discover"
  /\ \/ /\ Do("Discover", TRUE)
        /\ \E c \in Clusters \ {{}} : cluster' = c /\ discovered' = <<c>>
        /\ Goto("walCreate")
     \/ /\ Do("Discover", FALSE)
        /\ cluster' = {}
        /\ UNCHANGED discovered
        /\ Exit("discovery failed")
  /\ UNCHANGED <<cfg, hist, disk, run, walAtStart, req, self, st, snapshot, index, w, wid,
                 hs, ents, n, ph, addrIdx>>

\* Mutant: the call of raft.StartNode is lost.
WalCreateSkipsStartNode ==
  /\ pc = "walCreate"
  /\ \E ok \in BOOLEAN :
       /\ Do("wal.Create", ok)
       /\ IF ok
            THEN /\ dirs' = dirs \cup {"wal"}
                 /\ walDisk' = EmptyWal
                 /\ w' = <<[Offset |-> 0]>>
                 /\ hist' = [hist EXCEPT !.Created = @ \cup {run},
                                         !.Peers = <<ClusterIDs(cluster)>>]
                 /\ Goto("transport")
            ELSE /\ UNCHANGED <<dirs, walDisk, w, hist>>
                 /\ Exit("wal.Create failed")
  /\ UNCHANGED <<cfg, snapDisk, run, walAtStart, req, discovered, cluster, self,
                 st, snapshot, index, wid, hs, ents, n, ph, addrIdx>>

\* Mutant: the log is created where the next run does not look for it.
WalCreateElsewhere ==
  /\ pc = "walCreate"
  /\ \E ok \in BOOLEAN :
       /\ Do("wal.Create", ok)
       /\ IF ok
            THEN /\ walDisk' = EmptyWal
                 /\ w' = <<[Offset |-> 0]>>
                 /\ hist' = [hist EXCEPT !.Created = @ \cup {run},
                                         !.Peers = <<ClusterIDs(cluster)>>]
                 /\ Goto("startNode")
            ELSE /\ UNCHANGED <<walDisk, w, hist>>
                 /\ Exit("wal.Create failed")
  /\ UNCHANGED <<cfg, dirs, snapDisk, run, walAtStart, req, discovered, cluster,
                 self, st, snapshot, index, wid, hs, ents, n, ph, addrIdx>>

\* w, err = wal.Create(waldir).
WalCreate ==
  /\ pc = "walCreate"
  /\ \E ok \in BOOLEAN :
       /\ Do("wal.Create", ok)
       /\ IF ok
            THEN /\ dirs' = dirs \cup {"wal"}
                 /\ walDisk' = EmptyWal
                 /\ w' = <<[Offset |-> 0]>>
                 /\ hist' = [hist EXCEPT !.Created = @ \cup {run},
                                         !.Peers = <<ClusterIDs(cluster)>>]
                 /\ Goto("startNode")
            ELSE /\ UNCHANGED <<dirs, walDisk, w, hist>>
                 /\ Exit("wal.Create failed")
  /\ UNCHANGED <<cfg, snapDisk, run, walAtStart, req, discovered, cluster, self, st, snapshot,
                 index, wid, hs, ents, n, ph, addrIdx>>

\* Mutant: the else is lost and the fresh path runs on into the recovery path.
StartNodeFallsThrough ==
  /\ pc = "startNode"
  /\ Do("StartNode", TRUE)
  /\ n' = <<[Mode |-> "start", ID |-> self[1].ID, Peers |-> ClusterIDs(cluster),
             Snapshot |-> <<>>, State |-> 0, Ents |-> <<>>]>>
  /\ hist' = [hist EXCEPT !.Started = @ \cup {run}]
  /\ Goto("snapLoad")
  /\ UNCHANGED <<cfg, disk, run, walAtStart, req, discovered, cluster, self, st,
                 snapshot, index, w, wid, hs, ents, ph, addrIdx>>

\* n = raft.StartNode(self.ID, cluster.IDs(), 10, 1).
StartNode ==
  /\ pc = "startNode"
  /\ Do("StartNode", TRUE)
  /\ n' = <<[Mode |-> "start", ID |-> self[1].ID, Peers |-> ClusterIDs(cluster),
             Snapshot |-> <<>>, State |-> 0, Ents |-> <<>>]>>
  /\ hist' = [hist EXCEPT !.Started = @ \cup {run}]
  /\ Goto("transport")
  /\ UNCHANGED <<cfg, disk, run, walAtStart, req, discovered, cluster, self, st, snapshot, index,
                 w, wid, hs, ents, ph, addrIdx>>

\* --------------------------------------------------------- recovery path
\* Mutant: every error of Load is fatal, snap.ErrNoSnapshot included.
SnapLoadAnyErrorFatal ==
  /\ pc = "snapLoad"
  /\ \/ /\ snapDisk = <<>>
        /\ ops' = Append(ops, Call("snap.Load", "ErrNoSnapshot"))
        /\ snapshot' = <<>>
        /\ UNCHANGED <<st, index>>
        /\ Exit("snapshot load failed")
     \/ /\ snapDisk # <<>>
        /\ ops' = ops \o <<Call("snap.Load", ""), Call("st.Recovery", "")>>
        /\ snapshot' = snapDisk
        /\ st' = <<snapDisk[1].Data>>
        /\ index' = snapDisk[1].Index
        /\ Goto("walOpen")
     \/ /\ ops' = Append(ops, Call("snap.Load", "error"))
        /\ snapshot' = <<>>
        /\ UNCHANGED <<st, index>>
        /\ Exit("snapshot load failed")
  /\ UNCHANGED <<cfg, hist, disk, run, walAtStart, req, discovered, cluster, self, w, wid,
                 hs, ents, n, ph, addrIdx>>

\* snapshotter.Load(): snap.ErrNoSnapshot is no error; a snapshot is restored
\* into the store and sets the recovery start offset.
SnapLoad ==
  /\ pc = "snapLoad"
  /\ \/ /\ snapDisk = <<>>
        /\ ops' = Append(ops, Call("snap.Load", "ErrNoSnapshot"))
        /\ snapshot' = <<>>
        /\ UNCHANGED <<st, index>>
        /\ Goto("walOpen")
     \/ /\ snapDisk # <<>>
        /\ ops' = ops \o <<Call("snap.Load", ""), Call("st.Recovery", "")>>
        /\ snapshot' = snapDisk
        /\ st' = <<snapDisk[1].Data>>
        /\ index' = snapDisk[1].Index
        /\ Goto("walOpen")
     \/ /\ ops' = Append(ops, Call("snap.Load", "error"))
        /\ snapshot' = <<>>
        /\ UNCHANGED <<st, index>>
        /\ Exit("snapshot load failed")
  /\ UNCHANGED <<cfg, hist, disk, run, walAtStart, req, discovered, cluster, self, w, wid, hs, ents, n,
                 ph, addrIdx>>

\* Mutant: the error of wal.OpenAtIndex is dropped.
WalOpenIgnoresError ==
  /\ pc = "walOpen"
  /\ \E ok \in BOOLEAN :
       /\ Do("wal.OpenAtIndex", ok)
       /\ w' = <<[Offset |-> index]>>
       /\ Goto("readAll")
  /\ UNCHANGED <<cfg, hist, disk, run, walAtStart, req, discovered, cluster, self,
                 st, snapshot, index, wid, hs, ents, n, ph, addrIdx>>

\* w, err = wal.OpenAtIndex(waldir, index).
WalOpen ==
  /\ pc = "walOpen"
  /\ \E ok \in BOOLEAN :
       /\ Do("wal.OpenAtIndex", ok)
       /\ IF ok THEN w' = <<[Offset |-> index]>> /\ Goto("readAll")
          ELSE UNCHANGED w /\ Exit("wal.OpenAtIndex failed")
  /\ UNCHANGED <<cfg, hist, disk, run, walAtStart, req, discovered, cluster, self, st, snapshot, index,
                 wid, hs, ents, n, ph, addrIdx>>

\* wid, st, ents, err := w.ReadAll().
ReadAll ==
  /\ pc = "readAll"
  /\ \E ok \in BOOLEAN :
       /\ Do("wal.ReadAll", ok)
       /\ IF ok
            THEN /\ wid' = walDisk.ID
                 /\ hs' = walDisk.State
                 /\ ents' = ReadAllEntries(walDisk.Ents, w[1].Offset)
                 /\ Goto("checkWid")
            ELSE /\ UNCHANGED <<wid, hs, ents>>
                 /\ Exit("wal.ReadAll failed")
  /\ UNCHANGED <<cfg, hist, disk, run, walAtStart, req, discovered, cluster, self, st, snapshot, index,
                 w, n, ph, addrIdx>>

\* Mutant: the identifier read back is accepted whatever it is.
CheckWidAcceptsAny ==
  /\ pc = "checkWid"
  /\ Goto("restartNode")
  /\ UNCHANGED <<cfg, hist, disk, run, walAtStart, locals, ops>>

\* if wid != 0: fatal.
CheckWid ==
  /\ pc = "checkWid"
  /\ IF wid # 0 THEN Exit("unexpected nodeid") ELSE Goto("restartNode")
  /\ UNCHANGED <<cfg, hist, disk, run, walAtStart, locals, ops>>

\* n = raft.RestartNode(self.ID, cluster.IDs(), 10, 1, snapshot, st, ents).
RestartNode ==
  /\ pc = "restartNode"
  /\ Do("RestartNode", TRUE)
  /\ n' = <<[Mode |-> "restart", ID |-> self[1].ID, Peers |-> ClusterIDs(cluster),
             Snapshot |-> snapshot, State |-> hs, Ents |-> ents]>>
  /\ Goto("transport")
  /\ UNCHANGED <<cfg, hist, disk, run, walAtStart, req, discovered, cluster, self, st, snapshot, index,
                 w, wid, hs, ents, ph, addrIdx>>

\* ---------------------------------------------------- service composition
\* transport.NewTransport(peerTLSInfo).
NewTransport ==
  /\ pc = "transport"
  /\ \E ok \in BOOLEAN :
       /\ Do("NewTransport", ok)
       /\ IF ok THEN Goto("serverStart") ELSE Exit("NewTransport failed")
  /\ UNCHANGED <<cfg, hist, disk, run, walAtStart, locals>>

\* The cluster store, the EtcdServer over {w, snapshotter}, s.Start(), and the
\* client and peer handlers.
ServerStart ==
  /\ pc = "serverStart"
  /\ Do("EtcdServer.Start", TRUE)
  /\ Goto("peerListen")
  /\ UNCHANGED <<cfg, hist, disk, run, walAtStart, locals>>

\* transport.NewListener(*paddr, peerTLSInfo).
PeerListen ==
  /\ pc = "peerListen"
  /\ \E ok \in BOOLEAN :
       /\ Do("NewListener(peer)", ok)
       /\ IF ok THEN Goto("goPeer") ELSE Exit("NewListener failed")
  /\ UNCHANGED <<cfg, hist, disk, run, walAtStart, locals>>

\* Mutant: the peer listener is built and no task serves it.
GoPeerStartsNothing ==
  /\ pc = "goPeer"
  /\ pc' = "clientLoop"
  /\ UNCHANGED <<cfg, hist, disk, run, walAtStart, locals, serving, ops, fatal>>

\* go func() { log.Fatal(http.Serve(l, ph)) }() for the peer endpoint.
GoPeer ==
  /\ pc = "goPeer"
  /\ serving' = serving \cup {<<"peer", 0>>}
  /\ pc' = "clientLoop"
  /\ UNCHANGED <<cfg, hist, disk, run, walAtStart, locals, ops, fatal>>

\* for _, addr := range *addrs: transport.NewListener(addr, clientTLSInfo).
ClientListen ==
  /\ pc = "clientLoop"
  /\ addrIdx < cfg.Addrs
  /\ \E ok \in BOOLEAN :
       /\ Do("NewListener(client)", ok)
       /\ IF ok THEN Goto("goClient") ELSE Exit("NewListener failed")
  /\ UNCHANGED <<cfg, hist, disk, run, walAtStart, locals>>

\* go func() { log.Fatal(http.Serve(l, ch)) }() for one client endpoint.
GoClient ==
  /\ pc = "goClient"
  /\ serving' = serving \cup {<<"client", addrIdx + 1>>}
  /\ addrIdx' = addrIdx + 1
  /\ pc' = "clientLoop"
  /\ UNCHANGED <<cfg, hist, disk, run, walAtStart, req, discovered, cluster, self, st, snapshot, index,
                 w, wid, hs, ents, n, ph, ops, fatal>>

\* The started server saves entries and snapshots through the storage
\* {w, snapshotter} it was given; its writes are taken up once the main
\* sequence has blocked.
ServerSave ==
  /\ pc = "blocked"
  /\ n # <<>>
  /\ \/ /\ Len(walDisk.Ents) < MaxIndex
        /\ walDisk' = [walDisk EXCEPT !.Ents = Append(@, Entry(Len(@) + 1)),
                                      !.State = Len(walDisk.Ents) + 1]
        /\ UNCHANGED snapDisk
     \/ /\ \E k \in 1..Len(walDisk.Ents) :
             /\ SnapIndex(snapDisk) < k
             /\ snapDisk' = <<[Index |-> k, Data |-> k]>>
        /\ UNCHANGED walDisk
  /\ UNCHANGED <<cfg, hist, dirs, run, walAtStart, pc, locals, serving, ops, fatal>>

\* ------------------------------------------------------------ startProxy
\* transport.NewTransport(clientTLSInfo).
ProxyTransport ==
  /\ pc = "proxyTransport"
  /\ \E ok \in BOOLEAN :
       /\ Do("NewTransport", ok)
       /\ IF ok THEN Goto("proxyHandler") ELSE Exit("NewTransport failed")
  /\ UNCHANGED <<cfg, hist, disk, run, walAtStart, locals>>

\* proxy.NewHandler(pt, (*cluster).PeerURLs()), wrapped in the CORS handler.
ProxyHandler ==
  /\ pc = "proxyHandler"
  /\ \E ok \in BOOLEAN :
       /\ Do("proxy.NewHandler", ok)
       /\ IF ok
            THEN /\ ph' = <<[Urls |-> PeerURLs(cluster), Cors |-> TRUE,
                             Readonly |-> FALSE]>>
                 /\ Goto("proxyReadonly")
            ELSE /\ UNCHANGED ph
                 /\ Exit("proxy.NewHandler failed")
  /\ UNCHANGED <<cfg, hist, disk, run, walAtStart, req, discovered, cluster, self, st, snapshot, index,
                 w, wid, hs, ents, n, addrIdx>>

\* Mutant: the read-only wrapper is never put around the handler.
ProxyReadonlyNeverWraps ==
  /\ pc = "proxyReadonly"
  /\ UNCHANGED ph
  /\ Goto("proxyLoop")
  /\ UNCHANGED <<cfg, hist, disk, run, walAtStart, req, discovered, cluster, self,
                 st, snapshot, index, w, wid, hs, ents, n, addrIdx, ops>>

\* if *proxyFlag == readonly: ph = proxy.NewReadonlyHandler(ph).
ProxyReadonly ==
  /\ pc = "proxyReadonly"
  /\ IF cfg.Proxy = ProxyValueReadonly
       THEN ph' = <<[ph[1] EXCEPT !.Readonly = TRUE]>>
       ELSE UNCHANGED ph
  /\ Goto("proxyLoop")
  /\ UNCHANGED <<cfg, hist, disk, run, walAtStart, req, discovered, cluster, self, st, snapshot, index,
                 w, wid, hs, ents, n, addrIdx, ops>>

\* for _, addr := range *addrs: transport.NewListener(addr, clientTLSInfo).
ProxyListen ==
  /\ pc = "proxyLoop"
  /\ addrIdx < cfg.Addrs
  /\ \E ok \in BOOLEAN :
       /\ Do("NewListener(client)", ok)
       /\ IF ok THEN Goto("goProxy") ELSE Exit("NewListener failed")
  /\ UNCHANGED <<cfg, hist, disk, run, walAtStart, locals>>

\* go func() { log.Fatal(http.Serve(l, ph)) }() for one proxy endpoint.
GoProxy ==
  /\ pc = "goProxy"
  /\ serving' = serving \cup {<<"client", addrIdx + 1>>}
  /\ addrIdx' = addrIdx + 1
  /\ pc' = "proxyLoop"
  /\ UNCHANGED <<cfg, hist, disk, run, walAtStart, req, discovered, cluster, self, st, snapshot, index,
                 w, wid, hs, ents, n, ph, ops, fatal>>

\* What the handler chain h answers to a request: the read-only wrapper
\* rejects a mutating request before the inner handler sees it; the forwarding
\* handler relays to one of its peer URLs and has nowhere to relay without one.
ServeProxy(h, mutating) ==
  IF h.Readonly /\ mutating
    THEN {[Outcome |-> "rejected", Url |-> ""]}
    ELSE IF h.Urls = {}
      THEN {[Outcome |-> "unavailable", Url |-> ""]}
      ELSE {[Outcome |-> "relayed", Url |-> u] : u \in h.Urls}

\* http.Serve(l, ph) of a proxy endpoint answers one request.
ProxyRequest ==
  /\ cfg.Proxy # ProxyValueOff
  /\ ph # <<>>
  /\ \E g \in serving, mutating \in BOOLEAN :
       \E a \in ServeProxy(ph[1], mutating) :
         req' = <<[Task |-> g, Mutating |-> mutating, Outcome |-> a.Outcome,
                   Url |-> a.Url]>>
  /\ UNCHANGED <<cfg, hist, disk, run, walAtStart, pc, cluster, self, st, snapshot,
                 index, w, wid, hs, ents, n, discovered, ph, addrIdx, serving,
                 ops, fatal>>

\* ------------------------------------------------------- process lifetime
\* startEtcd or startProxy returns; main blocks: <-make(chan struct{}).
Block ==
  /\ pc \in {"clientLoop", "proxyLoop"}
  /\ addrIdx = cfg.Addrs
  /\ pc' = "blocked"
  /\ UNCHANGED <<cfg, hist, disk, run, walAtStart, locals, serving, ops, fatal>>

\* Mutant: a serving loop that returns ends its own task only.
ServeReturnEndsOneTask ==
  /\ \E g \in serving : serving' = serving \ {g}
  /\ UNCHANGED <<cfg, hist, disk, run, walAtStart, pc, locals, ops, fatal>>

\* http.Serve of a serving task returns: log.Fatal ends the process.
ServeReturn ==
  /\ \E g \in serving : TRUE
  /\ Exit("http.Serve returned")
  /\ UNCHANGED <<cfg, hist, disk, run, walAtStart, locals, ops>>

\* The next run of the process on the same data directory and flags.
NewRun ==
  /\ pc = "exited"
  /\ run < MaxRuns
  /\ run' = run + 1
  /\ walAtStart' = WalExist(dirs)
  /\ pc' = "main"
  /\ cluster' = cfg.Cluster
  /\ self' = <<>> /\ st' = <<>> /\ snapshot' = <<>> /\ index' = 0
  /\ w' = <<>> /\ wid' = 0 /\ hs' = 0 /\ ents' = <<>> /\ n' = <<>> /\ ph' = <<>>
  /\ discovered' = <<>> /\ req' = <<>>
  /\ addrIdx' = 0 /\ serving' = {} /\ ops' = <<>> /\ fatal' = ""
  /\ UNCHANGED <<cfg, hist, disk>>

Next ==
  \/ Main \/ ResolveSelf \/ CheckSnapCount \/ MkdirData \/ MkdirSnap
  \/ BootstrapMode
  \/ DiscoveryCheck \/ DiscoveryNew \/ Discover \/ WalCreate \/ StartNode
  \/ SnapLoad \/ WalOpen \/ ReadAll \/ CheckWid \/ RestartNode
  \/ NewTransport \/ ServerStart \/ PeerListen \/ GoPeer \/ ClientListen
  \/ GoClient \/ ServerSave
  \/ ProxyTransport \/ ProxyHandler \/ ProxyReadonly \/ ProxyListen \/ GoProxy
  \/ ProxyRequest
  \/ Block \/ ServeReturn \/ NewRun

Spec == Init /\ [][Next]_vars

\* The steps of the main goroutine. The runtime keeps the main goroutine
\* running, so each of them is taken when it is the next one; only Discover
\* blocks on a service that may never answer.
MainStep ==
  \/ Main \/ ResolveSelf \/ CheckSnapCount \/ MkdirData \/ MkdirSnap
  \/ BootstrapMode
  \/ DiscoveryCheck \/ DiscoveryNew \/ WalCreate \/ StartNode
  \/ SnapLoad \/ WalOpen \/ ReadAll \/ CheckWid \/ RestartNode
  \/ NewTransport \/ ServerStart \/ PeerListen \/ GoPeer \/ ClientListen
  \/ GoClient
  \/ ProxyTransport \/ ProxyHandler \/ ProxyReadonly \/ ProxyListen \/ GoProxy
  \/ Block

FairSpec == Spec /\ WF_vars(MainStep)

\* ------------------------------------------------- reading the call record
Has(op) == \E i \in DOMAIN ops : ops[i].Op = op
Count(op) == Cardinality({i \in DOMAIN ops : ops[i].Op = op})
Returned(op, err) == \E i \in DOMAIN ops : ops[i].Op = op /\ ops[i].Err = err
NormalMode == cfg.Proxy = ProxyValueOff

RecoveryOps == {"snap.Load", "st.Recovery", "wal.OpenAtIndex", "wal.ReadAll",
                "RestartNode"}
DiscoveryOps == {"discovery.New", "Discover"}

\* C1: in a normal-mode run that began without a log directory, no snapshot
\* is loaded and no existing log is opened or read; and with a discovery URL
\* configured, each creation of the log comes after the one and only Discover
\* call of the run, which returned without error.
C1_FreshNeverRecoversAndDiscoversFirst ==
  (NormalMode /\ ~walAtStart) =>
    /\ \A op \in RecoveryOps : ~Has(op)
    /\ Count("Discover") <= 1
    /\ cfg.Durl =>
         \A i \in DOMAIN ops :
           ops[i].Op = "wal.Create" =>
             /\ Count("Discover") = 1
             /\ \E j \in 1..(i - 1) : ops[j] = Call("Discover", "")

C1_Witness ==
  /\ NormalMode /\ ~walAtStart /\ cfg.Durl
  /\ Returned("wal.Create", "")
  /\ pc = "startNode"

\* C2: in a normal-mode run that began with the log directory present,
\* discovery is never initialised or called and no log is created, whatever
\* the discovery URL and the advertised peer URLs are.
C2_RecoveryNeverDiscovers ==
  (NormalMode /\ walAtStart) =>
    /\ \A op \in DiscoveryOps : ~Has(op)
    /\ ~Has("wal.Create")
    /\ discovered = <<>>
    /\ cluster = cfg.Cluster

C2_Witness ==
  /\ NormalMode /\ walAtStart /\ cfg.Durl /\ cfg.Purls
  /\ n # <<>> /\ n[1].Mode = "restart"
  /\ pc = "blocked"

\* The entries of a log with indices lo..hi, in order.
EntriesBetween(es, lo, hi) == SelectSeq(es, LAMBDA e : lo <= e.Index /\ e.Index <= hi)

LastIndex(es) == IF es = <<>> THEN 0 ELSE es[Len(es)].Index

\* C3: right after restart from a loaded snapshot at index K over a log that
\* holds entries up to index N, the entries handed to RestartNode are those
\* with indices K+1..N, in order, and none has index K or lower.
C3_RestartEntriesAfterSnapshot ==
  (pc = "transport" /\ n # <<>> /\ n[1].Mode = "restart" /\ n[1].Snapshot # <<>>) =>
    /\ n[1].Ents = EntriesBetween(walDisk.Ents, n[1].Snapshot[1].Index + 1,
                                  LastIndex(walDisk.Ents))
    /\ \A i \in DOMAIN n[1].Ents : n[1].Ents[i].Index > n[1].Snapshot[1].Index

SetupPcs == {"main", "resolve", "snapCount", "mkdirData", "mkdirSnap", "walExist",
             "discoveryCheck", "discoveryNew", "discover", "walCreate",
             "startNode", "snapLoad", "walOpen", "readAll", "checkWid",
             "restartNode"}

\* The run has reached service composition (NewTransport and what follows).
ReachedComposition == NormalMode /\ (pc \notin SetupPcs \cup {"exited"} \/ Has("NewTransport"))

\* C4: a normal-mode run never initialises the consensus engine twice; once
\* it reaches service composition it has done so exactly once, by StartNode
\* or by RestartNode; StartNode is called only in a run that began without the
\* log directory and RestartNode only in a run that began with it.
C4_ExactlyOneOfStartRestart ==
  NormalMode =>
    /\ Count("StartNode") + Count("RestartNode") <= 1
    /\ ReachedComposition =>
         /\ Count("StartNode") + Count("RestartNode") = 1
         /\ n # <<>>
         /\ n[1].Mode = (IF Has("StartNode") THEN "start" ELSE "restart")
    /\ Has("StartNode") => ~walAtStart
    /\ Has("RestartNode") => walAtStart

C4_Witness ==
  /\ NormalMode /\ pc = "serverStart"
  /\ Has("RestartNode") /\ walAtStart

\* C5: the member IDs passed to the consensus engine are those of the
\* descriptor Discover returned when the node starts afresh with a discovery
\* URL, and those of the configured descriptor when it starts afresh without
\* one or restarts.
C5_PeersPassed ==
  n # <<>> =>
    n[1].Peers =
      (IF n[1].Mode = "start" /\ cfg.Durl
         THEN IF discovered = <<>> THEN {-1} ELSE ClusterIDs(discovered[1])
         ELSE ClusterIDs(cfg.Cluster))

C5_Witness ==
  /\ n # <<>> /\ n[1].Mode = "start" /\ cfg.Durl
  /\ discovered # <<>>
  /\ ClusterIDs(discovered[1]) # ClusterIDs(cfg.Cluster)
  /\ n[1].Peers = ClusterIDs(discovered[1])

ListenerOps == {"NewListener(peer)", "NewListener(client)"}

\* C6: once a non-zero node identifier has been read back from the log, the
\* run never calls RestartNode, builds no listener and starts no serving
\* task, and it exits at the identifier check; RestartNode is called only
\* after ReadAll returned the identifier zero.
C6_NonZeroWalIDAborts ==
  /\ (Returned("wal.ReadAll", "") /\ wid # 0) =>
       /\ pc \in {"checkWid", "exited"}
       /\ pc = "exited" => fatal = "unexpected nodeid"
       /\ ~Has("RestartNode") /\ n = <<>>
       /\ \A op \in ListenerOps : ~Has(op)
       /\ serving = {}
  /\ Has("RestartNode") => (Returned("wal.ReadAll", "") /\ wid = 0)

C6_Witness ==
  /\ pc = "exited" /\ fatal = "unexpected nodeid"
  /\ Returned("wal.ReadAll", "") /\ wid # 0

ConfigErrors == {"no member with name", "cannot use None as member id",
                 "snapshot-count must be greater than 0",
                 "discovery requires advertised-peer-urls"}

\* A configuration of the flags that startEtcd rejects.
BadConfig ==
  \/ FindName(cfg.Cluster, cfg.Name) = <<>>
  \/ FindName(cfg.Cluster, cfg.Name)[1].ID = None
  \/ cfg.SnapCount <= 0
  \/ (cfg.Durl /\ ~cfg.Purls)

\* C7: a normal-mode run with a configuration error makes no collaborator
\* call at all (no directory, log, snapshot, discovery or listener call)
\* and ends with a configuration error.
C7_ConfigErrorsBeforeIO ==
  /\ fatal \in ConfigErrors => ops = <<>>
  /\ (NormalMode /\ BadConfig) => ops = <<>>

\* C8: a normal-mode run that has passed name resolution holds as self the
\* member of the configured cluster with the configured name, and its ID is
\* not None; when there is no such member or its ID is None, the run makes no
\* collaborator call and changes no directory before it exits.
C8_SelfResolvedOrExit ==
  NormalMode =>
    LET found == FindName(cfg.Cluster, cfg.Name)
        valid == found # <<>> /\ found[1].ID # None
    IN /\ pc \notin {"main", "resolve", "exited"} =>
            /\ valid
            /\ self = found
            /\ self[1] \in cfg.Cluster /\ self[1].Name = cfg.Name
            /\ self[1].ID # None
       /\ ~valid =>
            /\ pc \in {"main", "resolve", "exited"}
            /\ ops = <<>> /\ serving = {}
            /\ walAtStart = WalExist(dirs)
            /\ pc = "exited" =>
                 fatal = (IF found = <<>> THEN "no member with name"
                          ELSE "cannot use None as member id")
       /\ ops # <<>> => valid

C8_Witness ==
  /\ NormalMode /\ pc = "exited"
  /\ fatal = "cannot use None as member id"
  /\ self # <<>> /\ self[1].ID = None

\* C9: on the recovery path, when Load returns ErrNoSnapshot the run goes on:
\* the store stays empty, no restore is made, the log is opened at offset
\* zero and RestartNode gets a nil snapshot; after any other Load error the
\* run exits without opening the log.
C9_NoSnapshotIsNoError ==
  /\ Returned("snap.Load", "ErrNoSnapshot") =>
       /\ fatal # "snapshot load failed"
       /\ st = <<>> /\ ~Has("st.Recovery")
       /\ snapshot = <<>> /\ index = 0
       /\ w # <<>> => w[1].Offset = 0
       /\ n # <<>> => (n[1].Mode = "restart" /\ n[1].Snapshot = <<>>)
       /\ pc # "snapLoad"
  /\ Returned("snap.Load", "error") =>
       /\ pc = "exited" /\ fatal = "snapshot load failed"
       /\ ~Has("wal.OpenAtIndex") /\ w = <<>> /\ n = <<>>

C9_Witness ==
  /\ Returned("snap.Load", "ErrNoSnapshot")
  /\ pc = "serverStart"
  /\ n # <<>> /\ n[1].Mode = "restart" /\ n[1].Snapshot = <<>>
  /\ w = <<[Offset |-> 0]>> /\ st = <<>>

ProxyPcs == {"main", "proxyTransport", "proxyHandler", "proxyReadonly",
             "proxyLoop", "goProxy", "blocked", "exited"}
NormalOnlyOps == {"MkdirAll(data)", "MkdirAll(snap)", "wal.Exist", "discovery.New",
                  "Discover", "wal.Create", "StartNode", "snap.Load",
                  "st.Recovery", "wal.OpenAtIndex", "wal.ReadAll", "RestartNode",
                  "EtcdServer.Start", "NewListener(peer)"}

\* C10: with the proxy flag not off, the run never resolves a member, makes
\* no directory, log, snapshot, discovery or consensus call and has no peer
\* endpoint; with the proxy flag off, no proxy handler is built.
C10_ProxyAndNormalExclusive ==
  /\ ~NormalMode =>
       /\ pc \in ProxyPcs
       /\ self = <<>> /\ n = <<>> /\ w = <<>> /\ discovered = <<>>
       /\ \A op \in NormalOnlyOps : ~Has(op)
       /\ walAtStart = WalExist(dirs)
       /\ <<"peer", 0>> \notin serving
  /\ NormalMode =>
       /\ ph = <<>> /\ ~Has("proxy.NewHandler")
       /\ pc \notin (ProxyPcs \ {"main", "blocked", "exited"})

C10_Witness ==
  /\ ~NormalMode /\ pc = "blocked"
  /\ ph # <<>> /\ serving # {}

C12_NoServingBeforeInitDone ==
  serving # {} =>
    \/ pc = "blocked"
    \/ pc \in {"clientLoop", "proxyLoop"} /\ addrIdx = cfg.Addrs

\* The place in the call record of the first call of op, 0 when there is none.
First(op) ==
  IF Has(op) THEN CHOOSE i \in DOMAIN ops :
                    ops[i].Op = op /\ \A j \in 1..(i - 1) : ops[j].Op # op
  ELSE 0

\* C13: in normal mode an endpoint serves, and a listener is built, only
\* after the bootstrap decision, then the fresh or the recovery path, then
\* StartNode or RestartNode; a serving endpoint has a node handle.
C13_NodeBeforeEndpoints ==
  (NormalMode /\ (serving # {} \/ \E op \in ListenerOps : Has(op))) =>
    /\ n # <<>>
    /\ LET init == IF Has("StartNode") THEN First("StartNode")
                   ELSE First("RestartNode")
           path == IF Has("StartNode") THEN First("wal.Create")
                   ELSE First("wal.ReadAll")
       IN /\ 0 < First("wal.Exist")
          /\ First("wal.Exist") < path
          /\ path < init
          /\ init < First("NewListener(peer)")
          /\ \A i \in DOMAIN ops :
               ops[i].Op \in ListenerOps => init < i

C13_Witness ==
  /\ NormalMode /\ <<"peer", 0>> \in serving /\ <<"client", 1>> \in serving
  /\ n # <<>> /\ n[1].Mode = "start"

FreshPcs == {"discoveryCheck", "discoveryNew", "discover", "walCreate", "startNode"}
RecoveryPcs == {"snapLoad", "walOpen", "readAll", "checkWid", "restartNode"}

\* C14: a run tests the existence of the log directory at most once, and
\* the test made after the data and the snapshot directory were created
\* gives what it would have given when the run began: the run is on the
\* fresh path only if it began without the log directory and on the
\* recovery path only if it began with it.
C14_BootstrapModeOnce ==
  /\ Count("wal.Exist") <= 1
  /\ pc = "walExist" => WalExist(dirs) = walAtStart
  /\ pc \in FreshPcs => (~walAtStart /\ Has("wal.Exist"))
  /\ pc \in RecoveryPcs => (walAtStart /\ Has("wal.Exist"))
  /\ Has("StartNode") => ~walAtStart
  /\ Has("RestartNode") => walAtStart

C14_Witness ==
  /\ pc = "discoveryCheck" /\ ~walAtStart
  /\ dirs = {"data", "snap"}
  /\ Count("wal.Exist") = 1

\* C15: a step that ends the serving loop of one endpoint ends the process
\* and with it every other serving task.
C15_ServeReturnEndsProcess ==
  [][(\E g \in serving : g \notin serving') => (pc' = "exited" /\ serving' = {})]_vars

C15_Witness ==
  /\ pc = "exited" /\ fatal = "http.Serve returned"
  /\ Has("NewListener(peer)") /\ Count("NewListener(client)") = 2

FallibleSetupOps == {"MkdirAll(data)", "MkdirAll(snap)", "discovery.New",
                     "Discover", "wal.Create", "snap.Load", "wal.OpenAtIndex",
                     "wal.ReadAll"}

\* C16: a fallible startup step that failed is the last call of its run:
\* the process has exited, the consensus engine was not initialised, and there
\* is no listener and no serving task.
C16_SetupFailureIsTerminal ==
  \A i \in DOMAIN ops :
    (ops[i].Op \in FallibleSetupOps /\ ops[i].Err = "error") =>
      /\ i = Len(ops)
      /\ pc = "exited" /\ fatal # ""
      /\ n = <<>>
      /\ ~Has("StartNode") /\ ~Has("RestartNode")
      /\ \A op \in ListenerOps : ~Has(op)
      /\ serving = {}

C16_Witness ==
  /\ Returned("wal.ReadAll", "error")
  /\ pc = "exited"

\* The serving tasks of a run that started all of them.
AllTasks ==
  {<<"client", i>> : i \in 1..cfg.Addrs}
    \cup (IF NormalMode THEN {<<"peer", 0>>} ELSE {})

FailureReasons ==
  {"no member with name", "cannot use None as member id",
   "snapshot-count must be greater than 0", "cannot create data directory",
   "cannot create snapshot directory", "discovery requires advertised-peer-urls",
   "cannot init discovery", "discovery failed", "wal.Create failed",
   "snapshot load failed", "wal.OpenAtIndex failed", "wal.ReadAll failed",
   "unexpected nodeid", "NewTransport failed", "proxy.NewHandler failed",
   "NewListener failed", "http.Serve returned"}

\* C17: a run in which no step fails comes to block (unless it waits for
\* discovery for ever); a blocked main sequence has started one client task
\* per address and, in normal mode only, the one peer task; it takes no
\* further step and makes no further call, and the process exits only by a
\* failed step or by a serving loop that returned.
C17_AllTasksThenBlocked ==
  /\ []<>(pc \in {"blocked", "exited", "discover"})
  /\ [](pc = "blocked" => (serving = AllTasks /\ addrIdx = cfg.Addrs))
  /\ [](pc = "exited" => fatal \in FailureReasons)
  /\ [][pc = "blocked" =>
          /\ ops' = ops
          /\ pc' \in {"blocked", "exited"}
          /\ pc' = "exited" => fatal' = "http.Serve returned"]_vars

C17_Witness ==
  /\ NormalMode /\ pc = "blocked" /\ cfg.Addrs = 2
  /\ serving = {<<"peer", 0>>, <<"client", 1>>, <<"client", 2>>}

\* C18: over the runs on one data directory, StartNode is called in at most
\* one run, and only in a run that created the log; a normal-mode run that
\* comes after the run that created the log begins with the log directory
\* present, stays off the fresh path and neither creates a log nor calls
\* StartNode.
C18_NoDoubleBootstrap ==
  /\ Cardinality(hist.Started) <= 1
  /\ Cardinality(hist.Created) <= 1
  /\ hist.Started \subseteq hist.Created
  /\ \A r \in hist.Created :
       (run > r /\ NormalMode) =>
         /\ walAtStart
         /\ pc \notin FreshPcs
         /\ ~Has("wal.Create") /\ ~Has("StartNode")

C18_Witness ==
  /\ run = 2 /\ hist.Created = {1} /\ hist.Started = {1}
  /\ Has("RestartNode")

\* C19: the member IDs passed to RestartNode are those in effect in the run
\* that created the log.
C19_RestartPeersAsCreated ==
  (n # <<>> /\ n[1].Mode = "restart" /\ hist.Peers # <<>>) =>
    n[1].Peers = hist.Peers[1]

\* C20: the ID passed to StartNode or RestartNode is not None and is one of
\* the member IDs passed in the same call.
C20_SelfIsMember ==
  n # <<>> => (n[1].ID # None /\ n[1].ID \in n[1].Peers)

====
